---- MODULE Spec2Model ----
(***************************************************************************)
(* A model of src/src/parser.rs: the incremental decode buffer             *)
(* (DecodeReader), the encoding sniffer, the declaration-driven decoder    *)
(* switch of parse_start, and the document builder (handle_event,          *)
(* create_element), with normalize_space.                                  *)
(*                                                                         *)
(* Conventions.                                                            *)
(*  - A raw byte is a record [v, i]: v is the byte's value (0..255) and i  *)
(*    its position in the source stream (a history tag the program never   *)
(*    reads; it lets a property say which source byte a piece of output    *)
(*    came from).  A decoded byte is a record [v, lo, hi, k, m]: the k-th  *)
(*    of the m UTF-8 bytes the decoder wrote for source bytes lo..hi.      *)
(*  - Option<&Encoding> is "None" or the encoding's name; Option<Decoder>  *)
(*    is a decoder record whose enc is "None" when there is none.         *)
(*  - A buffer array is modelled by its filled prefix: `undecoded` holds   *)
(*    the first undecoded_cap bytes of the 4096-byte array, `decoded` the  *)
(*    first decoded_cap bytes of the 12288-byte array.  The program never  *)
(*    reads an array position at or beyond the fill level.                 *)
(*  - Rust positions are 0-based counts; the slice a[p..c] is              *)
(*    SubSeq(a, p + 1, c).                                                 *)
(*  - A function of the source is split into operators that pass the      *)
(*    values of its locals on as parameters (name, name_with, ...), so     *)
(*    that each local is written once.                                     *)
(***************************************************************************)
EXTENDS Integers, Sequences, FiniteSets, TLC

VARIABLES
    decodereader,   \* the DecodeReader (fields as in the struct, inner = what the source still holds)
    parser,         \* the DocumentParser: document, read_opts, encoding, element_stack
    init_encoding,  \* parse_start's local
    xmlreader,      \* the tokenizer built on the DecodeReader (its own state only)
    event,          \* the event read_event returned last
    pc,             \* position in parse_reader / parse_start / parse_content
    result,         \* what parse_reader returns: NotReturned until it returns, then Ok(document) or the error
    buf,            \* the slice the last fill_buf returned to its caller (minus what was consumed since)
    hist            \* history: what happened so far (never read by the program)

vars == <<decodereader, parser, init_encoding, xmlreader, event, pc, result, buf, hist>>

----------------------------------------------------------------------------
(* Sizes of the DecodeReader's regions. *)

UNDECODED_SIZE == 4096
REMAINING_SIZE == 32
DECODED_SIZE == 12288

(* Bounds of the model. *)

\* a source read returns 1..MaxShortRead bytes, or all it can
MaxShortRead == 2

----------------------------------------------------------------------------
(* Sequence helpers. *)

Min(a, b) == IF a <= b THEN a ELSE b

Take(s, n) == SubSeq(s, 1, Min(n, Len(s)))

Drop(s, n) == SubSeq(s, Min(n, Len(s)) + 1, Len(s))

Last(s) == s[Len(s)]

Vals(s) == [k \in 1..Len(s) |-> s[k].v]

\* the source stream for the byte values bs: each byte tagged with its position
Tagged(bs) == [k \in 1..Len(bs) |-> [v |-> bs[k], i |-> k]]

RECURSIVE SeqsUpTo(_, _)
SeqsUpTo(S, n) ==
    IF n = 0 THEN {<<>>}
    ELSE LET shorter == SeqsUpTo(S, n - 1)
         IN shorter \cup {Append(s, x) : s \in {t \in shorter : Len(t) = n - 1}, x \in S}

----------------------------------------------------------------------------
(* encoding_rs, as the program uses it.                                    *)

Encodings == {"UTF_8", "UTF_16BE", "UTF_16LE", "WINDOWS_1252"}

\* Encoding::for_label: "None" for a label no encoding has.  The generic label
\* "utf-16" resolves to UTF-16LE (parser.rs line 348).
for_label(label) ==
    CASE label = "utf-8" -> "UTF_8"
      [] label = "utf-16" -> "UTF_16LE"
      [] label = "utf-16le" -> "UTF_16LE"
      [] label = "utf-16be" -> "UTF_16BE"
      [] label = "windows-1252" -> "WINDOWS_1252"
      [] OTHER -> "None"

\* the UTF-8 bytes of code point cp < 65536
Utf8Encode(cp) ==
    IF cp < 128 THEN <<cp>>
    ELSE IF cp < 2048 THEN <<192 + (cp \div 64), 128 + (cp % 64)>>
    ELSE <<224 + (cp \div 4096), 128 + ((cp \div 64) % 64), 128 + (cp % 64)>>

\* U+FFFD, written for a malformed sequence
REPLACEMENT == <<239, 191, 189>>

\* the m UTF-8 bytes written for source bytes lo..hi
Emit(vs, lo, hi) ==
    [k \in 1..Len(vs) |-> [v |-> vs[k], lo |-> lo, hi |-> hi, k |-> k, m |-> Len(vs)]]

\* a UTF-16 code unit: a lone surrogate is malformed (a surrogate pair is outside the model's streams)
Utf16Unit(u) == IF u \in 55296..57343 THEN REPLACEMENT ELSE Utf8Encode(u)

\* the number of bytes of the UTF-8 sequence that lead byte b starts (0: b starts none)
Utf8Need(b) ==
    IF b \in 194..223 THEN 2
    ELSE IF b \in 224..239 THEN 3
    ELSE IF b \in 240..244 THEN 4
    ELSE 0

\* the held bytes p turn out malformed; `again` is the next byte fed afresh
ReplacedThen(p, again) ==
    [out |-> Emit(REPLACEMENT, p[1].i, Last(p).i) \o again.out, pending |-> again.pending]

\* One raw byte b given to a decoder of encoding enc that holds the bytes p of an
\* unfinished character: the text written and the bytes held afterwards.
RECURSIVE DecoderFeed(_, _, _)
DecoderFeed(enc, p, b) ==
    CASE enc = "UTF_16BE" ->
            IF p = <<>> THEN [out |-> <<>>, pending |-> <<b>>]
            ELSE [out |-> Emit(Utf16Unit(p[1].v * 256 + b.v), p[1].i, b.i), pending |-> <<>>]
      [] enc = "UTF_16LE" ->
            IF p = <<>> THEN [out |-> <<>>, pending |-> <<b>>]
            ELSE [out |-> Emit(Utf16Unit(b.v * 256 + p[1].v), p[1].i, b.i), pending |-> <<>>]
      [] enc = "WINDOWS_1252" ->
            \* bytes 128..159 map to other code points; the model's streams hold none
            [out |-> Emit(Utf8Encode(b.v), b.i, b.i), pending |-> <<>>]
      [] OTHER ->  \* UTF_8
            IF p = <<>> THEN
                IF b.v < 128 THEN [out |-> Emit(<<b.v>>, b.i, b.i), pending |-> <<>>]
                ELSE IF Utf8Need(b.v) > 0 THEN [out |-> <<>>, pending |-> <<b>>]
                ELSE [out |-> Emit(REPLACEMENT, b.i, b.i), pending |-> <<>>]
            ELSE IF b.v \in 128..191 THEN
                IF Len(p) + 1 = Utf8Need(p[1].v)
                THEN [out |-> Emit(Vals(p) \o <<b.v>>, p[1].i, b.i), pending |-> <<>>]
                ELSE [out |-> <<>>, pending |-> Append(p, b)]
            ELSE ReplacedThen(p, DecoderFeed(enc, <<>>, b))

\* Decoder::decode_to_utf8(src, dst, last): (result, read, written, replaced) with
\* the decoder afterwards.  It stops early when the next character might not fit
\* dst.  DecodeLoop goes through the bytes n..to of src, out being the text so far.
RECURSIVE DecodeLoop(_, _, _, _, _, _)
RECURSIVE DecodeFed(_, _, _, _, _, _, _)
DecodeLoop(dec, src, dstSize, n, to, out) ==
    IF n > to THEN [read |-> to, written |-> out, decoder |-> dec, full |-> FALSE]
    ELSE IF Len(out) + 6 > dstSize
    THEN [read |-> n - 1, written |-> out, decoder |-> dec, full |-> TRUE]
    ELSE DecodeFed(dec, src, dstSize, n, to, out, DecoderFeed(dec.enc, dec.pending, src[n]))

DecodeFed(dec, src, dstSize, n, to, out, f) ==
    DecodeLoop([dec EXCEPT !.pending = f.pending], src, dstSize, n + 1, to, out \o f.out)

\* the end of the input: the last call writes U+FFFD for an unfinished character
DecodeEnd(r, last) ==
    IF last /\ ~r.full /\ r.decoder.pending # <<>>
    THEN [read |-> r.read,
          written |-> r.written \o Emit(REPLACEMENT, r.decoder.pending[1].i,
                                        Last(r.decoder.pending).i),
          decoder |-> [r.decoder EXCEPT !.pending = <<>>]]
    ELSE [read |-> r.read, written |-> r.written, decoder |-> r.decoder]

\* src is gone through sixteen bytes at a time, r being the state after the bytes so far
RECURSIVE DecodeBlocks(_, _, _, _)
DecodeBlocks(src, dstSize, last, r) ==
    IF r.full \/ r.read >= Len(src) THEN DecodeEnd(r, last)
    ELSE DecodeBlocks(src, dstSize, last,
                      DecodeLoop(r.decoder, src, dstSize, r.read + 1,
                                 Min(r.read + 16, Len(src)), r.written))

decode_to_utf8(dec, src, dstSize, last) ==
    DecodeBlocks(src, dstSize, last,
                 [read |-> 0, written |-> <<>>, decoder |-> dec, full |-> FALSE])

\* Encoding::new_decoder_without_bom_handling
new_decoder(enc) == [enc |-> enc, pending |-> <<>>]

\* Option<Decoder>::None
NoDecoder == [enc |-> "None", pending |-> <<>>]

----------------------------------------------------------------------------
(* DecodeReader *)

\* DecodeReader::new(reader, decoder), reader holding the bytes src
DecodeReader_new(src, decoder) ==
    [decoder |-> decoder, inner |-> src,
     undecoded |-> <<>>, undecoded_pos |-> 0, undecoded_cap |-> 0,
     decoded |-> <<>>, decoded_pos |-> 0, decoded_cap |-> 0,
     done |-> FALSE]

set_encoding_clearing_decoded(d, encoding) ==
    [d EXCEPT !.decoder = IF encoding = "None" THEN NoDecoder ELSE new_decoder(encoding),
              !.done = FALSE,
              !.decoded = <<>>, !.decoded_pos = 0, !.decoded_cap = 0]

set_encoding(d, encoding) ==
    [d EXCEPT !.decoder = IF encoding = "None" THEN NoDecoder ELSE new_decoder(encoding),
              !.done = FALSE]

\* the numbers of bytes inner.read may return into a buffer of `space` bytes:
\* 0 at the end of the source only, else a short read or all that fits
ReadSizes(inner, space) ==
    LET most == Min(Len(inner), space)
    IN IF most = 0 THEN {0} ELSE {n \in 1..most : n <= MaxShortRead \/ n = most}

fill_buf_decode_refill_without_carry(d, n, remaining) ==
    IF remaining <= REMAINING_SIZE
    THEN [d EXCEPT !.undecoded = Take(d.inner, n),
                   !.inner = Drop(d.inner, n),
                   !.done = (n = 0),
                   !.undecoded_pos = 0,
                   !.undecoded_cap = n]
    ELSE d

\* lines 61-72: the refill of the raw region; n bytes come from the source
fill_buf_decode_refill(d, n, remaining) ==
    IF remaining <= REMAINING_SIZE
    THEN [d EXCEPT
            !.undecoded = SubSeq(d.undecoded, d.undecoded_pos + 1, d.undecoded_cap)
                          \o Take(d.inner, n),
            !.inner = Drop(d.inner, n),
            !.done = (n = 0),
            !.undecoded_pos = 0,
            !.undecoded_cap = remaining + n]
    ELSE d

\* lines 80-82, r being what decode_to_utf8 returned
fill_buf_decode_with(d, r) ==
    [d EXCEPT !.decoder = r.decoder,
              !.undecoded_pos = @ + r.read,
              !.decoded = r.written,
              !.decoded_cap = Len(r.written),
              !.decoded_pos = 0]

\* lines 75-82
fill_buf_decode_decode(d) ==
    fill_buf_decode_with(d, decode_to_utf8(d.decoder,
                                           SubSeq(d.undecoded, d.undecoded_pos + 1, d.undecoded_cap),
                                           DECODED_SIZE, d.done))

\* n: how many bytes the source returns, should this call read from it
fill_buf_decode(d, n) ==
    IF d.decoded_pos >= d.decoded_cap THEN
        IF d.done THEN d
        ELSE fill_buf_decode_decode(
                 fill_buf_decode_refill(d, n, d.undecoded_cap - d.undecoded_pos))
    ELSE d

fill_buf_without_decode(d, n) ==
    IF d.undecoded_pos >= d.undecoded_cap
    THEN [d EXCEPT !.undecoded = Take(d.inner, n),
                   !.inner = Drop(d.inner, n),
                   !.undecoded_cap = n,
                   !.undecoded_pos = 0]
    ELSE d

\* BufRead::fill_buf: the reader afterwards
fill_buf(d, n) ==
    IF d.decoder.enc # "None" THEN fill_buf_decode(d, n) ELSE fill_buf_without_decode(d, n)

\* the slice fill_buf returns, d being the reader after the call
fill_buf_slice(d) ==
    IF d.decoder.enc # "None"
    THEN SubSeq(d.decoded, d.decoded_pos + 1, d.decoded_cap)
    ELSE SubSeq(d.undecoded, d.undecoded_pos + 1, d.undecoded_cap)

\* does fill_buf read from the source in state d, and into how much space
WillRead(d) ==
    IF d.decoder.enc # "None"
    THEN d.decoded_pos >= d.decoded_cap /\ ~d.done
         /\ d.undecoded_cap - d.undecoded_pos <= REMAINING_SIZE
    ELSE d.undecoded_pos >= d.undecoded_cap

ReadSpace(d) ==
    IF d.decoder.enc # "None"
    THEN UNDECODED_SIZE - (d.undecoded_cap - d.undecoded_pos)
    ELSE UNDECODED_SIZE

\* the read sizes a fill_buf call in state d may meet
FillReads(d) == IF WillRead(d) THEN ReadSizes(d.inner, ReadSpace(d)) ELSE {0}

consume_unclamped(d, amt) ==
    IF d.decoder.enc # "None"
    THEN [d EXCEPT !.decoded_pos = d.decoded_pos + amt]
    ELSE [d EXCEPT !.undecoded_pos = d.undecoded_pos + amt]

\* BufRead::consume
consume(d, amt) ==
    IF d.decoder.enc # "None"
    THEN [d EXCEPT !.decoded_pos = Min(d.decoded_pos + amt, d.decoded_cap)]
    ELSE [d EXCEPT !.undecoded_pos = Min(d.undecoded_pos + amt, d.undecoded_cap)]

----------------------------------------------------------------------------
(* The space normalizer *)

IsSpace(b) == b \in {13, 10, 9, 32}

\* the loop of normalize_space from index n on
RECURSIVE normalize_loop(_, _, _, _, _)
normalize_loop_every_space(bytes, n, normalized, char_found, last_space) ==
    IF n > Len(bytes) THEN normalized
    ELSE IF IsSpace(bytes[n]) THEN
        IF char_found
        THEN normalize_loop(bytes, n + 1, Append(normalized, 32), char_found, TRUE)
        ELSE normalize_loop(bytes, n + 1, normalized, char_found, last_space)
    ELSE normalize_loop(bytes, n + 1, Append(normalized, bytes[n]), TRUE, FALSE)

normalize_loop(bytes, n, normalized, char_found, last_space) ==
    IF n > Len(bytes) THEN normalized
    ELSE IF IsSpace(bytes[n]) THEN
        IF char_found /\ ~last_space
        THEN normalize_loop(bytes, n + 1, Append(normalized, 32), char_found, TRUE)
        ELSE normalize_loop(bytes, n + 1, normalized, char_found, last_space)
    ELSE normalize_loop(bytes, n + 1, Append(normalized, bytes[n]), TRUE, FALSE)

normalize_end_without_pop(normalized) == normalized

\* lines 403-406
normalize_end(normalized) ==
    IF normalized # <<>> /\ Last(normalized) = 32
    THEN SubSeq(normalized, 1, Len(normalized) - 1)
    ELSE normalized

normalize_space(bytes) == normalize_end(normalize_loop(bytes, 1, <<>>, FALSE, FALSE))

----------------------------------------------------------------------------
(* Results and errors *)

Ok(x) == [ok |-> TRUE, val |-> x]

Err(kind, msg) == [ok |-> FALSE, val |-> [kind |-> kind, msg |-> msg]]

MissingDecl == Err("MalformedXML", "Didn't find XML Declaration at the start of file")

DeclInMiddle == Err("MalformedXML", "XML declaration found in the middle of the document")

BadStandalone == Err("MalformedXML", "Standalone Document Declaration has non boolean value")

CannotDecode == Err("CannotDecode", "")

\* String::from_utf8 failed
Utf8Error == Err("Utf8", "")

\* an error of the tokenizer (quick-xml), passed through by `?`
TokenizerError == Err("Tokenizer", "")

----------------------------------------------------------------------------
(* The document tree (document.rs, element.rs): an arena of elements, an   *)
(* Element being an index into it.  Element 1 is the root container.       *)

Insert(map, k, v) == [x \in (DOMAIN map) \cup {k} |-> IF x = k THEN v ELSE map[x]]

\* HashMap::extend
Extend(map, more) ==
    [x \in (DOMAIN map) \cup (DOMAIN more) |-> IF x \in DOMAIN more THEN more[x] ELSE map[x]]

EmptyMap == <<>>

ElementData(name) ==
    [full_name |-> name, attributes |-> EmptyMap, namespace_decls |-> EmptyMap, children |-> <<>>]

\* text (names, keys, values, content) is the sequence of its bytes
Document_new ==
    [version |-> "1.0", standalone |-> FALSE, elements |-> <<ElementData(<<>>)>>]

container == 1

\* Element::new: the document and the new element
Element_new(doc, name) ==
    [doc |-> [doc EXCEPT !.elements = Append(@, ElementData(name))],
     element |-> Len(doc.elements) + 1]

push_child(doc, parent, node) ==
    [doc EXCEPT !.elements[parent].children = Append(@, node)]

has_children(doc, elem) == doc.elements[elem].children # <<>>

ElementNode(e) == [kind |-> "Element", id |-> e, content |-> <<>>]

ContentNode(kind, content) == [kind |-> kind, id |-> 0, content |-> content]

----------------------------------------------------------------------------
(* DocumentParser *)

\* the parser parse_reader builds
DocumentParser_new(opts) ==
    [document |-> Document_new, read_opts |-> opts, encoding |-> "None",
     element_stack |-> <<container>>]

ToLower(s) ==
    CASE s = "Yes" -> "yes"
      [] s = "YES" -> "yes"
      [] s = "No" -> "no"
      [] s = "NO" -> "no"
      [] OTHER -> s

\* lines 189-204, val being the lowercased value
handle_decl_standalone(p, ev, val) ==
    IF ev.standalone = "None"
    THEN [parser |-> [p EXCEPT !.document.standalone = FALSE], res |-> Ok("unit")]
    ELSE IF val = "yes"
    THEN [parser |-> [p EXCEPT !.document.standalone = TRUE], res |-> Ok("unit")]
    ELSE IF val = "no"
    THEN [parser |-> [p EXCEPT !.document.standalone = FALSE], res |-> Ok("unit")]
    ELSE [parser |-> p, res |-> BadStandalone]

\* lines 178-188, enc being for_label of the declared label
handle_decl_encoding(p, ev, enc) ==
    IF ev.encoding = "None"
    THEN handle_decl_standalone([p EXCEPT !.encoding = "None"], ev, ToLower(ev.standalone))
    ELSE IF enc = "None" THEN [parser |-> p, res |-> CannotDecode]
    ELSE IF enc = "UTF_8"
    THEN handle_decl_standalone([p EXCEPT !.encoding = "None"], ev, ToLower(ev.standalone))
    ELSE handle_decl_standalone([p EXCEPT !.encoding = enc], ev, ToLower(ev.standalone))

\* handle_decl: the parser afterwards and Ok(()) or the error
handle_decl(p, ev) ==
    IF ev.version = "None" THEN [parser |-> p, res |-> TokenizerError]
    ELSE handle_decl_encoding([p EXCEPT !.document.version = ev.version], ev,
                              for_label(ev.encoding))

\* "xmlns" and "xmlns:"
xmlns == <<120, 109, 108, 110, 115>>

xmlns_colon == xmlns \o <<58>>

IsPrefix(pre, s) == Len(pre) <= Len(s) /\ SubSeq(s, 1, Len(pre)) = pre

\* str::strip_prefix, given that pre is a prefix of s
strip_prefix(s, pre) == SubSeq(s, Len(pre) + 1, Len(s))

\* Attribute::unescaped_value: "&lt;" is the one entity of the model's values;
\* any other '&' is an escape error
UnescapedThen(b, rest) == [ok |-> rest.ok, val |-> <<b>> \o rest.val]

RECURSIVE unescaped_value(_)
unescaped_value(v) ==
    IF v = <<>> THEN [ok |-> TRUE, val |-> <<>>]
    ELSE IF v[1] # 38 THEN UnescapedThen(v[1], unescaped_value(Tail(v)))
    ELSE IF IsPrefix(<<38, 108, 116, 59>>, v)
    THEN UnescapedThen(60, unescaped_value(SubSeq(v, 5, Len(v))))
    ELSE [ok |-> FALSE, val |-> <<>>]

\* the attribute loop of create_element from attribute n on: the attribute map of
\* the element and the local namespaces map so far
RECURSIVE attribute_loop(_, _, _, _)
RECURSIVE attribute_step(_, _, _, _, _, _)
attribute_loop(attrs, n, attributes, namespaces) ==
    IF n > Len(attrs) THEN [res |-> Ok("unit"), attributes |-> attributes, namespaces |-> namespaces]
    ELSE attribute_step(attrs, n, attributes, namespaces, attrs[n].key,
                        unescaped_value(normalize_space(attrs[n].value)))

attribute_step_without_continue(attrs, n, attributes, namespaces, key, value) ==
    IF ~attrs[n].ok \/ ~value.ok
    THEN [res |-> TokenizerError, attributes |-> attributes, namespaces |-> namespaces]
    ELSE IF key = xmlns
    THEN attribute_loop(attrs, n + 1, Insert(attributes, key, value.val),
                        Insert(namespaces, <<>>, value.val))
    ELSE IF IsPrefix(xmlns_colon, key)
    THEN attribute_loop(attrs, n + 1, Insert(attributes, key, value.val),
                        Insert(namespaces, strip_prefix(key, xmlns_colon), value.val))
    ELSE attribute_loop(attrs, n + 1, Insert(attributes, key, value.val), namespaces)

\* lines 214-225 for attribute n: its key, and its value normalized and unescaped
attribute_step(attrs, n, attributes, namespaces, key, value) ==
    IF ~attrs[n].ok \/ ~value.ok
    THEN [res |-> TokenizerError, attributes |-> attributes, namespaces |-> namespaces]
    ELSE IF key = xmlns
    THEN attribute_loop(attrs, n + 1, attributes, Insert(namespaces, <<>>, value.val))
    ELSE IF IsPrefix(xmlns_colon, key)
    THEN attribute_loop(attrs, n + 1, attributes,
                        Insert(namespaces, strip_prefix(key, xmlns_colon), value.val))
    ELSE attribute_loop(attrs, n + 1, Insert(attributes, key, value.val), namespaces)

\* create_element: the parser afterwards and Ok(element) or the error
\* lines 227-229: the attribute loop went through, leaving the document doc
create_element_attach_to_container(p, parent, doc, element, namespaces) ==
    [parser |-> [p EXCEPT !.document =
                    push_child([doc EXCEPT !.elements[element].namespace_decls =
                                               Extend(@, namespaces)],
                               container, ElementNode(element))],
     res |-> Ok(element)]

create_element_attach(p, parent, doc, element, namespaces) ==
    [parser |-> [p EXCEPT !.document =
                    push_child([doc EXCEPT !.elements[element].namespace_decls =
                                               Extend(@, namespaces)],
                               parent, ElementNode(element))],
     res |-> Ok(element)]

\* lines 213-229, looped being what the attribute loop did
create_element_looped(p, parent, doc, element, looped) ==
    IF ~looped.res.ok
    THEN [parser |-> [p EXCEPT !.document =
                         [doc EXCEPT !.elements[element].attributes = looped.attributes]],
          res |-> looped.res]
    ELSE create_element_attach(p, parent,
                               [doc EXCEPT !.elements[element].attributes = looped.attributes],
                               element, looped.namespaces)

\* lines 211-229, the element made by Element::new
create_element_made(p, parent, ev, made) ==
    create_element_looped(p, parent, made.doc, made.element,
                          attribute_loop(ev.attrs, 1,
                                         made.doc.elements[made.element].attributes, EmptyMap))

create_element(p, parent, ev) ==
    IF ~ev.ok THEN [parser |-> p, res |-> Utf8Error]
    ELSE create_element_made(p, parent, ev, Element_new(p.document, ev.name))

\* the Text, DocType, Comment, CData and PI arms of handle_event
handle_content(p, ev) ==
    IF ~ev.ok THEN [parser |-> p, res |-> Utf8Error]
    ELSE [parser |-> [p EXCEPT !.document =
                         push_child(p.document, Last(p.element_stack),
                                    ContentNode(ev.kind, ev.content))],
          res |-> Ok(FALSE)]

handle_start_without_push(made) ==
    IF ~made.res.ok THEN made ELSE [parser |-> made.parser, res |-> Ok(FALSE)]

\* lines 240-242, made being what create_element returned
handle_start(made) ==
    IF ~made.res.ok THEN made
    ELSE [parser |-> [made.parser EXCEPT !.element_stack = Append(@, made.res.val)],
          res |-> Ok(FALSE)]

handle_end_without_text(p, elem) == [parser |-> p, res |-> Ok(FALSE)]

\* lines 245-253, elem being the element popped
handle_end(p, elem) ==
    IF p.read_opts.empty_text_node /\ ~has_children(p.document, elem)
    THEN [parser |-> [p EXCEPT !.document = push_child(@, elem, ContentNode("Text", <<>>))],
          res |-> Ok(FALSE)]
    ELSE [parser |-> p, res |-> Ok(FALSE)]

handle_second_decl_ignored(p) == [parser |-> p, res |-> Ok(FALSE)]

\* lines 296-298
handle_second_decl(p) == [parser |-> p, res |-> DeclInMiddle]

\* lines 256-258
handle_empty(made) ==
    IF ~made.res.ok THEN made ELSE [parser |-> made.parser, res |-> Ok(FALSE)]

\* handle_event: the parser afterwards and Ok(finished) or the error
handle_event(p, ev) ==
    CASE ev.kind = "Start" -> handle_start(create_element(p, Last(p.element_stack), ev))
      [] ev.kind = "End" ->
            handle_end([p EXCEPT !.element_stack = SubSeq(@, 1, Len(@) - 1)],
                       Last(p.element_stack))
      [] ev.kind = "Empty" -> handle_empty(create_element(p, Last(p.element_stack), ev))
      [] ev.kind \in {"Text", "DocType", "Comment", "CData", "PI"} -> handle_content(p, ev)
      [] ev.kind = "Decl" -> handle_second_decl(p)
      [] OTHER -> [parser |-> p, res |-> Ok(TRUE)]  \* Eof

----------------------------------------------------------------------------
(* The encoding sniffer *)

StartsWith(bytes, pre) == Len(pre) <= Len(bytes) /\ SubSeq(bytes, 1, Len(pre)) = pre

\* lines 309-330: the match on the bytes fill_buf returned, d being the reader after it
sniff_match(d, bytes) ==
    CASE StartsWith(bytes, <<60, 63>>) -> [reader |-> d, encoding |-> "None"]
      [] StartsWith(bytes, <<254, 255>>) -> [reader |-> consume(d, 2), encoding |-> "UTF_16BE"]
      [] StartsWith(bytes, <<255, 254>>) -> [reader |-> consume(d, 2), encoding |-> "UTF_16LE"]
      [] StartsWith(bytes, <<239, 187, 191>>) -> [reader |-> consume(d, 3), encoding |-> "None"]
      [] StartsWith(bytes, <<0, 60, 0, 63>>) -> [reader |-> d, encoding |-> "UTF_16BE"]
      [] StartsWith(bytes, <<60, 0, 63, 0>>) -> [reader |-> d, encoding |-> "UTF_16LE"]
      [] OTHER -> [reader |-> d, encoding |-> "None"]

sniff_filled(d) == sniff_match(d, Vals(fill_buf_slice(d)))

\* sniff_encoding: the reader afterwards and the encoding sniffed;
\* n is the number of bytes the source returns to the fill_buf call
sniff_encoding(d, n) == sniff_filled(fill_buf(d, n))

----------------------------------------------------------------------------
(* parse_start *)

\* lines 335-340: sniff, apply the caller's override, configure the reader.
\* n is the number of bytes the source returns to the sniffer's fill_buf.
parse_start_sniffed(opts, sniffed, override) ==
    IF opts.encoding = "None"
    THEN [reader |-> set_encoding(sniffed.reader, sniffed.encoding),
          init_encoding |-> sniffed.encoding, res |-> Ok("unit"), sniffed |-> sniffed]
    ELSE IF override = "None"
    THEN [reader |-> sniffed.reader, init_encoding |-> sniffed.encoding, res |-> CannotDecode,
          sniffed |-> sniffed]
    ELSE [reader |-> set_encoding(sniffed.reader, override),
          init_encoding |-> override, res |-> Ok("unit"), sniffed |-> sniffed]

parse_start_init(d, opts, n) ==
    parse_start_sniffed(opts, sniff_encoding(d, n), for_label(opts.encoding))

needs_switch_always_on_difference(encoding, init) == encoding # init

\* the condition of lines 349-350
needs_switch(encoding, init) ==
    encoding # init /\ ~(encoding = "UTF_16LE" /\ init = "UTF_16BE")

\* lines 346-356, the first event being the declaration ev: the parser and the
\* reader afterwards, whether the tokenizer was rebuilt, and Ok(()) or the error
parse_start_handled(d, init, h) ==
    IF ~h.res.ok THEN [parser |-> h.parser, reader |-> d, rebuilt |-> FALSE, res |-> h.res]
    ELSE IF needs_switch(h.parser.encoding, init)
    THEN [parser |-> h.parser, reader |-> set_encoding(d, h.parser.encoding),
          rebuilt |-> TRUE, res |-> h.res]
    ELSE [parser |-> h.parser, reader |-> d, rebuilt |-> FALSE, res |-> h.res]

parse_start_decl(p, d, init, ev) == parse_start_handled(d, init, handle_decl(p, ev))

----------------------------------------------------------------------------
(* The tokenizer (quick_xml::Reader), seen from the parser: read_event     *)
(* returns the next event or an error.  It keeps the names of the open     *)
(* elements and returns an End event only for the innermost open one.      *)

Reader_new == [opened |-> <<>>, tag_state |-> "Closed", acc |-> <<>>]

Ev(kind, name, attrs, content, ok) ==
    [kind |-> kind, name |-> name, attrs |-> attrs, content |-> content, ok |-> ok,
     version |-> "None", encoding |-> "None", standalone |-> "None"]

DeclEv(version, encoding, standalone) ==
    [kind |-> "Decl", name |-> <<>>, attrs |-> <<>>, content |-> <<>>, ok |-> TRUE,
     version |-> version, encoding |-> encoding, standalone |-> standalone]

NoEvent == Ev("None", <<>>, <<>>, <<>>, TRUE)

EofEv == Ev("Eof", <<>>, <<>>, <<>>, TRUE)

EndEv == Ev("End", <<>>, <<>>, <<>>, TRUE)

Attr(key, value, ok) == [key |-> key, value |-> value, ok |-> ok]

\* what the tokenizer's own state becomes when it returns ev
Reader_after(x, ev) ==
    CASE ev.kind = "Start" -> [x EXCEPT !.opened = Append(@, ev.name)]
      [] ev.kind = "End" -> [x EXCEPT !.opened = SubSeq(@, 1, Len(@) - 1)]
      [] OTHER -> x

NotReturned == Err("NotReturned", "")

----------------------------------------------------------------------------
(* The tokenizer over the reader's bytes: read_event as quick-xml reads,   *)
(* one fill_buf and one consume at a time, up to the next '<' (text) or    *)
(* '>' (markup).  An empty slice from fill_buf is the end of the stream.   *)

is_whitespace(b) == b \in {32, 13, 10, 9}

RECURSIVE TrimStart(_)
TrimStart(s) == IF s # <<>> /\ is_whitespace(s[1]) THEN TrimStart(Tail(s)) ELSE s

RECURSIVE TrimEnd(_)
TrimEnd(s) ==
    IF s # <<>> /\ is_whitespace(Last(s)) THEN TrimEnd(SubSeq(s, 1, Len(s) - 1)) ELSE s

Trim(s) == TrimEnd(TrimStart(s))

\* the first position of a byte of set B in s, 0 when there is none
IndexOf(s, B) ==
    IF \E k \in 1..Len(s) : s[k] \in B
    THEN CHOOSE k \in 1..Len(s) : s[k] \in B /\ \A j \in 1..(k - 1) : s[j] \notin B
    ELSE 0

\* is s well-formed UTF-8 (String::from_utf8 succeeds)
RECURSIVE ValidUtf8(_)
ValidUtf8(s) ==
    IF s = <<>> THEN TRUE
    ELSE IF s[1] < 128 THEN ValidUtf8(Tail(s))
    ELSE /\ Utf8Need(s[1]) > 0
         /\ Len(s) >= Utf8Need(s[1])
         /\ \A k \in 2..Utf8Need(s[1]) : s[k] \in 128..191
         /\ ValidUtf8(SubSeq(s, Utf8Need(s[1]) + 1, Len(s)))

LowerBytes(s) == [k \in 1..Len(s) |-> IF s[k] \in 65..90 THEN s[k] + 32 ELSE s[k]]

\* the label a declaration's encoding value is for Encoding::for_label (case-insensitive)
LabelOf(bytes) ==
    CASE LowerBytes(bytes) = <<117, 116, 102, 45, 56>> -> "utf-8"
      [] LowerBytes(bytes) = <<117, 116, 102, 45, 49, 54>> -> "utf-16"
      [] LowerBytes(bytes) = <<117, 116, 102, 45, 49, 54, 98, 101>> -> "utf-16be"
      [] LowerBytes(bytes) = <<117, 116, 102, 45, 49, 54, 108, 101>> -> "utf-16le"
      [] LowerBytes(bytes) = <<119, 105, 110, 100, 111, 119, 115, 45, 49, 50, 53, 50>> -> "windows-1252"
      [] OTHER -> "bogus"

\* a declaration's version value: "1.0", another text, or none that from_utf8 takes
VersionOf(bytes) ==
    IF bytes = <<49, 46, 48>> THEN "1.0" ELSE IF ValidUtf8(bytes) THEN "other" ELSE "None"

\* a declaration's standalone value
StandaloneOf(bytes) ==
    CASE bytes = <<121, 101, 115>> -> "yes"
      [] bytes = <<110, 111>> -> "no"
      [] OTHER -> "maybe"

BadAttr == Attr(<<>>, <<>>, FALSE)

\* the attributes of a tag's text after its name: key="value" or key='value'
RECURSIVE parse_attrs(_)
parse_attr_value(b, eq, q) ==
    IF q = 0 THEN <<BadAttr>>
    ELSE <<Attr(TrimEnd(SubSeq(b, 1, eq - 1)), SubSeq(b, eq + 2, eq + q),
                ValidUtf8(SubSeq(b, 1, eq + q)))>>
         \o parse_attrs(SubSeq(b, eq + q + 2, Len(b)))

parse_attr_key(b, eq) ==
    IF eq = 0 \/ eq + 1 > Len(b) THEN <<BadAttr>>
    ELSE IF b[eq + 1] \notin {34, 39} THEN <<BadAttr>>
    ELSE parse_attr_value(b, eq, IndexOf(SubSeq(b, eq + 2, Len(b)), {b[eq + 1]}))

parse_attrs_from(b) == IF b = <<>> THEN <<>> ELSE parse_attr_key(b, IndexOf(b, {61}))

parse_attrs(bytes) == parse_attrs_from(TrimStart(bytes))

\* the value of the attribute named key, <<>> with found FALSE when there is none
AttrNamed(attrs, key) ==
    IF \E k \in 1..Len(attrs) : attrs[k].ok /\ attrs[k].key = key
    THEN [found |-> TRUE,
          value |-> attrs[CHOOSE k \in 1..Len(attrs) :
                             /\ attrs[k].ok /\ attrs[k].key = key
                             /\ \A j \in 1..(k - 1) : ~(attrs[j].ok /\ attrs[j].key = key)].value]
    ELSE [found |-> FALSE, value |-> <<>>]

\* BytesDecl: version() wants the first attribute to be version
decl_event_of(attrs, encoding, standalone) ==
    DeclEv(IF attrs # <<>> /\ attrs[1].ok /\ attrs[1].key = <<118, 101, 114, 115, 105, 111, 110>>
           THEN VersionOf(attrs[1].value) ELSE "None",
           IF encoding.found THEN LabelOf(encoding.value) ELSE "None",
           IF standalone.found THEN StandaloneOf(LowerBytes(standalone.value)) ELSE "None")

decl_event(attrs) ==
    decl_event_of(attrs, AttrNamed(attrs, <<101, 110, 99, 111, 100, 105, 110, 103>>),
                  AttrNamed(attrs, <<115, 116, 97, 110, 100, 97, 108, 111, 110, 101>>))

TokEvent(ev) == [ok |-> TRUE, ev |-> ev]

TokError == [ok |-> FALSE, ev |-> NoEvent]

\* "<?" inner "?>": a declaration when inner is "xml" and attributes, else a processing instruction
question_event(inner) ==
    IF IsPrefix(<<120, 109, 108>>, inner) /\ (Len(inner) = 3 \/ is_whitespace(inner[4]))
    THEN TokEvent(decl_event(parse_attrs(SubSeq(inner, 4, Len(inner)))))
    ELSE TokEvent(Ev("PI", <<>>, <<>>, inner, ValidUtf8(inner)))

\* a start or empty tag of text t, its name ending before position sp
element_event(kind, t, sp) ==
    IF sp = 0 THEN TokEvent(Ev(kind, t, <<>>, <<>>, ValidUtf8(t)))
    ELSE TokEvent(Ev(kind, SubSeq(t, 1, sp - 1), parse_attrs(SubSeq(t, sp, Len(t))), <<>>,
                     ValidUtf8(SubSeq(t, 1, sp - 1))))

\* the event for the markup t read between '<' and '>', x being the tokenizer;
\* the model's streams hold no "<!" markup
tag_event(x, t) ==
    IF t = <<>> THEN TokError
    ELSE IF t[1] = 63 THEN
        IF Len(t) >= 2 /\ Last(t) = 63
        THEN question_event(SubSeq(t, 2, Len(t) - 1))
        ELSE TokError
    ELSE IF t[1] = 47 THEN
        IF x.opened # <<>> /\ Last(x.opened) = TrimEnd(Tail(t))
        THEN TokEvent(EndEv)
        ELSE TokError
    ELSE IF t[1] = 33 THEN TokError
    ELSE IF Last(t) = 47
    THEN element_event("Empty", SubSeq(t, 1, Len(t) - 1),
                       IndexOf(SubSeq(t, 1, Len(t) - 1), {32, 13, 10, 9}))
    ELSE element_event("Start", t, IndexOf(t, {32, 13, 10, 9}))

\* the text read up to '<' or the end of the stream: no event when it trims to nothing
text_event(text) ==
    IF text = <<>> THEN TokEvent(NoEvent)
    ELSE TokEvent(Ev("Text", <<>>, <<>>, text, ValidUtf8(text)))

Stepped(d, x, tok) == [reader |-> d, xmlreader |-> x, tok |-> tok]

\* the delimiter was found: token is the text or markup before it
read_token(x, d, token) ==
    IF x.tag_state = "Closed"
    THEN Stepped(d, [x EXCEPT !.tag_state = "Opened", !.acc = <<>>], text_event(Trim(token)))
    ELSE Stepped(d, [x EXCEPT !.tag_state = "Closed", !.acc = <<>>], tag_event(x, token))

\* fill_buf returned the non-empty slice; k is where the delimiter is in it, or 0
read_found(x, d, slice, k) ==
    IF k = 0
    THEN Stepped(consume(d, Len(slice)), [x EXCEPT !.acc = @ \o Vals(slice)], TokEvent(NoEvent))
    ELSE read_token(x, consume(d, k), x.acc \o Vals(Take(slice, k - 1)))

\* fill_buf returned the empty slice: the end of the stream
read_eof(x, d) ==
    IF x.tag_state = "Closed"
    THEN IF Trim(x.acc) = <<>>
         THEN Stepped(d, [x EXCEPT !.acc = <<>>], TokEvent(EofEv))
         ELSE Stepped(d, [x EXCEPT !.acc = <<>>], text_event(Trim(x.acc)))
    ELSE IF x.acc = <<>> THEN Stepped(d, x, TokEvent(EofEv))
    ELSE Stepped(d, x, TokError)

\* one round of read_event on the slice fill_buf returned
read_step(x, d, slice) ==
    IF slice = <<>> THEN read_eof(x, d)
    ELSE read_found(x, d, slice,
                    IndexOf(Vals(slice), IF x.tag_state = "Closed" THEN {60} ELSE {62}))

\* d is the reader after fill_buf
read_filled(x, d) == read_step(x, d, fill_buf_slice(d))

----------------------------------------------------------------------------
(* The parse, the tokenizer's events being any the tokenizer may return.   *)

\* most events one parse reads
MaxEvents == 4

NewHist(src) ==
    [src |-> src,            \* the source stream
     sniff_n |-> 0,          \* bytes the source returned to the sniffer
     sniffed |-> "None",     \* the encoding sniff_encoding returned
     bom |-> 0,              \* bytes sniff_encoding consumed
     decl |-> "none",        \* handle_decl on the first event: "none" (not called), "ok" or "err"
     made |-> {},            \* the elements the arena gained, each with the kind and number of its event
     closed |-> {},          \* the elements End events popped, each with the children it had then
     set_encoding |-> <<>>,  \* the encodings set_encoding was called with, in order
     rebuilt |-> 0,          \* times the tokenizer was rebuilt after the declaration
     read |-> <<>>,          \* the events read_event returned
     handled |-> <<>>,       \* the numbers of the events given to handle_event, in order
     delivered |-> <<>>,     \* the bytes the reader's consumer consumed, in order
     drained |-> FALSE,      \* the last fill_buf returned the empty slice at the end of the source
     phase |-> 0,            \* 1: the parse whose source returns all it can to every read;
                             \* 2: the parse of the same stream that follows it; 0: neither
     reference |-> NotReturned,  \* in phase 2, what the parse of phase 1 returned
     op |-> "none",          \* the last call on the reader: "fill_buf", "consume" or "set_encoding"
     amt |-> 0,              \* the amount given to consume, when that was the last call
     before |-> DecodeReader_new(Tagged(src), NoDecoder),  \* the reader before the last call
     fed |-> <<>>]           \* the bytes the decoder reported consumed, over all fill_buf calls

Options(empty_text_node, require_decl, encoding) ==
    [empty_text_node |-> empty_text_node, trim_text |-> TRUE,
     require_decl |-> require_decl, encoding |-> encoding]

\* a new DecodeReader holding src and a new parser, the program being at `at`
InitWith(src, opts, at, h) ==
    /\ decodereader = DecodeReader_new(Tagged(src), NoDecoder)
    /\ parser = DocumentParser_new(opts)
    /\ init_encoding = "None"
    /\ xmlreader = Reader_new
    /\ event = NoEvent
    /\ pc = at
    /\ result = NotReturned
    /\ buf = <<>>
    /\ hist = h

InitAt(src, opts, at) == InitWith(src, opts, at, NewHist(src))

\* parse_reader up to its call of parse_start, the reader holding src
InitParse(src, opts) == InitAt(src, opts, "parse_start")

Return(res) ==
    /\ result' = res
    /\ pc' = "done"

\* parse_start, lines 335-342
ParseStartInitWith(n, s) ==
    /\ decodereader' = s.reader
    /\ init_encoding' = s.init_encoding
    /\ hist' = [hist EXCEPT !.sniff_n = n,
                            !.sniffed = s.sniffed.encoding,
                            !.bom = s.sniffed.reader.undecoded_pos,
                            !.set_encoding = IF s.res.ok THEN Append(@, s.init_encoding) ELSE @]
    /\ IF s.res.ok
       THEN pc' = "read_first" /\ UNCHANGED result
       ELSE Return(s.res)
    /\ xmlreader' = Reader_new
    /\ UNCHANGED <<parser, event, buf>>

\* the read sizes the source may answer a fill_buf call with
SourceReads(d) ==
    IF hist.phase = 1
    THEN {n \in FillReads(d) : \A m \in FillReads(d) : m <= n}
    ELSE FillReads(d)

ParseStartInit ==
    /\ pc = "parse_start"
    /\ \E n \in SourceReads(decodereader) :
         ParseStartInitWith(n, parse_start_init(decodereader, parser.read_opts, n))

\* read_event returns ev (lines 345 and 372), x being the tokenizer before that
Returned(x, ev) ==
    /\ event' = ev
    /\ xmlreader' = Reader_after(x, ev)
    /\ hist' = [hist EXCEPT !.read = Append(@, ev)]
    /\ pc' = IF pc = "read_first" THEN "first" ELSE "handle"
    /\ UNCHANGED <<parser, init_encoding, result, buf>>

ReturnEvent(ev) ==
    /\ Returned(xmlreader, ev)
    /\ UNCHANGED decodereader

\* read_event, the tokenizer returning any event of S it may return here
ReadEvent(S) ==
    /\ pc \in {"read_first", "read"}
    /\ \E ev \in S :
         /\ ev.kind = "End" => xmlreader.opened # <<>>
         /\ Len(hist.read) + 1 >= MaxEvents => ev.kind = "Eof"
         /\ ReturnEvent(ev)

\* read_event fails and `?` returns the error
ReadEventFails ==
    /\ pc \in {"read_first", "read"}
    /\ Return(TokenizerError)
    /\ UNCHANGED <<decodereader, parser, init_encoding, xmlreader, event, buf, hist>>

\* parse_start, lines 346-356: the first event is a declaration
ParseStartDeclWith(s) ==
    /\ parser' = s.parser
    /\ decodereader' = s.reader
    /\ xmlreader' = IF s.rebuilt THEN Reader_new ELSE xmlreader
    /\ hist' = [hist EXCEPT !.set_encoding = IF s.rebuilt THEN Append(@, s.parser.encoding) ELSE @,
                            !.rebuilt = IF s.rebuilt THEN @ + 1 ELSE @,
                            !.decl = IF s.res.ok THEN "ok" ELSE "err"]
    /\ IF s.res.ok THEN pc' = "read" /\ UNCHANGED result ELSE Return(s.res)
    /\ UNCHANGED <<init_encoding, event, buf>>

ParseStartDecl ==
    /\ pc = "first"
    /\ event.kind = "Decl"
    /\ ParseStartDeclWith(parse_start_decl(parser, decodereader, init_encoding, event))

\* parse_start, lines 357-360
ParseStartMissingDecl ==
    /\ pc = "first"
    /\ event.kind # "Decl"
    /\ parser.read_opts.require_decl
    /\ Return(MissingDecl)
    /\ UNCHANGED <<decodereader, parser, init_encoding, xmlreader, event, buf, hist>>

\* handle_event(ev)? and what its caller does with the answer
Handled(h) ==
    /\ parser' = h.parser
    /\ hist' = [hist EXCEPT
                  !.handled = Append(@, Len(hist.read)),
                  !.made = IF Len(h.parser.document.elements) > Len(parser.document.elements)
                           THEN @ \cup {[id |-> Len(h.parser.document.elements), by |-> event.kind,
                                         at |-> Len(hist.read)]}
                           ELSE @,
                  !.closed = IF event.kind = "End"
                             THEN @ \cup {[id |-> Last(parser.element_stack),
                                           had |-> Len(parser.document.elements[
                                                          Last(parser.element_stack)].children)]}
                             ELSE @]
    /\ IF ~h.res.ok THEN Return(h.res)
       ELSE IF h.res.val THEN Return(Ok(h.parser.document))
       ELSE pc' = "read" /\ UNCHANGED result
    /\ UNCHANGED <<decodereader, init_encoding, xmlreader, event, buf>>

parse_start_first_skipped(p, ev) == [parser |-> p, res |-> Ok(ev.kind = "Eof")]

\* line 361: the first event, no declaration, is handled as any other
parse_start_first(p, ev) == handle_event(p, ev)

\* parse_start, lines 361-363 (and 172-173 when it returns)
ParseStartFirstContent ==
    /\ pc = "first"
    /\ event.kind # "Decl"
    /\ ~parser.read_opts.require_decl
    /\ Handled(parse_start_first(parser, event))

\* parse_content, lines 373-375
ParseContent ==
    /\ pc = "handle"
    /\ Handled(handle_event(parser, event))

----------------------------------------------------------------------------
(* Spec: the document builder under every event sequence of the bound.     *)

AttrQ == Attr(<<113>>, <<118>>, TRUE)

\* the events the tokenizer may return
Events ==
    {DeclEv("1.0", "None", "None"), DeclEv("1.0", "utf-16", "Yes"),
     DeclEv("1.0", "None", "maybe"), DeclEv("None", "None", "None")}
    \cup {Ev(k, <<97>>, as, <<>>, TRUE) : k \in {"Start", "Empty"}, as \in {<<>>, <<AttrQ>>}}
    \cup {Ev("Start", <<255>>, <<>>, <<>>, FALSE), Ev("Text", <<>>, <<>>, <<255>>, FALSE)}
    \cup {Ev(k, <<>>, <<>>, <<116>>, TRUE) : k \in {"Text", "DocType", "Comment", "CData", "PI"}}
    \cup {EndEv, EofEv}

Streams == {<<60, 63>>, <<254, 255>>}

Init ==
    \E src \in Streams, e \in BOOLEAN, r \in BOOLEAN :
        InitParse(src, Options(e, r, "None"))

Next ==
    \/ ParseStartInit
    \/ ReadEvent(Events)
    \/ ReadEventFails
    \/ ParseStartDecl
    \/ ParseStartMissingDecl
    \/ ParseStartFirstContent
    \/ ParseContent

Spec == Init /\ [][Next]_vars

----------------------------------------------------------------------------
(* SpecStart: parse_start under every leading byte pattern, override and   *)
(* declaration.                                                            *)

\* the streams' leading bytes: one stream for each rule of the sniffer
Leads ==
    {<<60, 63, 120>>, <<254, 255, 0, 60>>, <<255, 254, 60, 0>>, <<239, 187, 191, 60>>,
     <<0, 60, 0, 63>>, <<60, 0, 63, 0>>, <<60, 97>>, <<>>}

Labels == {"utf-8", "utf-16", "utf-16be", "utf-16le", "windows-1252", "bogus"}

StartEvents ==
    {DeclEv("1.0", l, "None") : l \in Labels \cup {"None"}}
    \cup {Ev("Start", <<97>>, <<>>, <<>>, TRUE), Ev("Text", <<>>, <<>>, <<116>>, TRUE), EndEv, EofEv}

InitStart ==
    \E src \in Leads, r \in BOOLEAN, l \in Labels \cup {"None"} :
        InitParse(src, Options(TRUE, r, l))

NextStart ==
    \/ ParseStartInit
    \/ ReadEvent(StartEvents)
    \/ ReadEventFails
    \/ ParseStartDecl
    \/ ParseStartMissingDecl
    \/ ParseStartFirstContent
    \/ ParseContent

SpecStart == InitStart /\ [][NextStart]_vars

----------------------------------------------------------------------------
(* SpecAttrs: create_element under every attribute list of the bound: the  *)
(* parse of a document with one tag.                                       *)

\* most attributes of a tag
MaxAttrs == 3

\* "xmlns", "xmlns:", "xmlns:p", "xmlnsp" and "q"
AttrKeys == {xmlns, xmlns_colon, xmlns_colon \o <<112>>, xmlns \o <<112>>, <<113>>}

\* "v" and "w"
AttrValues == {<<118>>, <<119>>}

\* the attributes the tokenizer's iterator may yield, the last one being an error
Attrs == {Attr(k, v, TRUE) : k \in AttrKeys, v \in AttrValues} \cup {Attr(<<113>>, <<118>>, FALSE)}

TagEvents ==
    {Ev(k, <<97>>, as, <<>>, TRUE) : k \in {"Start", "Empty"}, as \in SeqsUpTo(Attrs, MaxAttrs)}

HasTag == \E k \in 1..Len(hist.read) : hist.read[k].kind \in {"Start", "Empty"}

\* the events of a document with one tag: a declaration or not, the tag, its end
AttrEvents ==
    IF HasTag THEN {EndEv, EofEv}
    ELSE IF hist.read = <<>> THEN TagEvents \cup {DeclEv("1.0", "None", "None")}
    ELSE TagEvents

InitAttrs == \E r \in BOOLEAN : InitParse(<<60, 63>>, Options(TRUE, r, "None"))

NextAttrs ==
    \/ ParseStartInit
    \/ ReadEvent(AttrEvents)
    \/ ReadEventFails
    \/ ParseStartDecl
    \/ ParseStartMissingDecl
    \/ ParseStartFirstContent
    \/ ParseContent

SpecAttrs == InitAttrs /\ [][NextAttrs]_vars

----------------------------------------------------------------------------
(* SpecPipe: parse_reader on the bytes of a document, the tokenizer reading *)
(* through the DecodeReader.  Each stream is parsed twice: first with a     *)
(* source that returns all its bytes to one read, then with a source that   *)
(* returns them in any split into short reads.                              *)

\* the bytes of <?xml version="1.0"?><a>t</a>
DocAscii ==
    <<60, 63, 120, 109, 108, 32, 118, 101, 114, 115, 105, 111, 110, 61, 34,
      49, 46, 48, 34, 63, 62, 60, 97, 62, 116, 60, 47, 97, 62>>

\* FE FF and, in UTF-16 BE, <?xml version="1.0" encoding="UTF-16"?><a>t</a>
DocUtf16BE ==
    <<254, 255, 0, 60, 0, 63, 0, 120, 0, 109, 0, 108, 0, 32, 0, 118, 0, 101,
      0, 114, 0, 115, 0, 105, 0, 111, 0, 110, 0, 61, 0, 34, 0, 49, 0, 46, 0,
      48, 0, 34, 0, 32, 0, 101, 0, 110, 0, 99, 0, 111, 0, 100, 0, 105, 0,
      110, 0, 103, 0, 61, 0, 34, 0, 85, 0, 84, 0, 70, 0, 45, 0, 49, 0, 54, 0,
      34, 0, 63, 0, 62, 0, 60, 0, 97, 0, 62, 0, 116, 0, 60, 0, 47, 0, 97, 0,
      62>>

\* EF BB BF and <a/>
DocUtf8Bom ==
    <<239, 187, 191, 60, 97, 47, 62>>

\* <a>, e-acute in UTF-8, </a>
DocUtf8Text ==
    <<60, 97, 62, 195, 169, 60, 47, 97, 62>>

PipeDocs == {DocAscii, DocUtf16BE, DocUtf8Bom, DocUtf8Text}

InitPipe ==
    \E src \in PipeDocs, r \in BOOLEAN :
        InitWith(src, Options(TRUE, r, "None"), "parse_start", [NewHist(src) EXCEPT !.phase = 1])

\* what one round of read_event did: nothing to return yet, an event, or an error
PipeStepped(r) ==
    /\ decodereader' = r.reader
    /\ IF ~r.tok.ok
       THEN /\ Return(TokenizerError)
            /\ xmlreader' = r.xmlreader
            /\ UNCHANGED <<parser, init_encoding, event, buf, hist>>
       ELSE IF r.tok.ev.kind = "None"
       THEN /\ xmlreader' = r.xmlreader
            /\ UNCHANGED <<parser, init_encoding, event, pc, result, buf, hist>>
       ELSE Returned(r.xmlreader, r.tok.ev)

\* read_event (lines 345 and 372): one fill_buf of the tokenizer and what it does with the slice
PipeReadStep ==
    /\ pc \in {"read_first", "read"}
    /\ \E n \in SourceReads(decodereader) :
         PipeStepped(read_filled(xmlreader, fill_buf(decodereader, n)))

\* the first parse returned: the same stream is parsed again
PipeRestart ==
    /\ pc = "done"
    /\ hist.phase = 1
    /\ decodereader' = DecodeReader_new(Tagged(hist.src), NoDecoder)
    /\ parser' = DocumentParser_new(parser.read_opts)
    /\ init_encoding' = "None"
    /\ xmlreader' = Reader_new
    /\ event' = NoEvent
    /\ pc' = "parse_start"
    /\ result' = NotReturned
    /\ buf' = <<>>
    /\ hist' = [NewHist(hist.src) EXCEPT !.phase = 2, !.reference = result]

NextPipe ==
    \/ ParseStartInit
    \/ PipeReadStep
    \/ ParseStartDecl
    \/ ParseStartMissingDecl
    \/ ParseStartFirstContent
    \/ ParseContent
    \/ PipeRestart

SpecPipe == InitPipe /\ [][NextPipe]_vars

\* C1: when the parse of a stream whose source returns all bytes in one read
\* returns a Document, the parse of the same stream split into any consecutive
\* non-empty reads returns the same Document.
C1_SplitReadsSameDocument ==
    (pc = "done" /\ hist.phase = 2 /\ hist.reference.ok)
    => /\ result.ok
       /\ result.val = hist.reference.val

----------------------------------------------------------------------------
(* SpecReader: the DecodeReader under any sequence of fill_buf, consume    *)
(* and set_encoding calls of a consumer that keeps the BufRead contract    *)
(* (it consumes no more than the slice it was given, and asks for a new    *)
(* slice after set_encoding, as the rebuilt tokenizer does).               *)

\* most set_encoding calls on one reader
MaxSwitches == 2

\* how far beyond the slice it holds the consumer's consume(amt) may go
MaxOverConsume == 1

\* "<a" in UTF-16 BE, "<" e-acute "a" in UTF-8, the UTF-16 BE mark and "a", "<a>" in ASCII
ReaderStreams == {<<0, 60, 0, 97>>, <<60, 195, 169, 97>>, <<254, 255, 0, 97>>, <<60, 97, 62>>}

ReaderEncodings == {"None", "UTF_8", "UTF_16BE", "WINDOWS_1252"}

InitReader == \E src \in ReaderStreams : InitAt(src, Options(TRUE, TRUE, "None"), "reader")

\* the bytes decode_to_utf8 reported consumed (line 80) in the fill_buf call
\* that took the reader from b to d: none if the call did not decode
Consumed(b, d) ==
    IF b.decoder.enc # "None" /\ b.decoded_pos >= b.decoded_cap /\ ~b.done
    THEN SubSeq(d.undecoded,
                (IF b.undecoded_cap - b.undecoded_pos <= REMAINING_SIZE
                 THEN 0 ELSE b.undecoded_pos) + 1,
                d.undecoded_pos)
    ELSE <<>>

\* the consumer calls fill_buf and keeps the slice
ReaderFilled(d) ==
    /\ decodereader' = d
    /\ buf' = fill_buf_slice(d)
    /\ hist' = [hist EXCEPT !.drained = fill_buf_slice(d) = <<>> /\ d.inner = <<>>
                                          /\ (d.decoder.enc # "None" => d.done),
                            !.op = "fill_buf", !.amt = 0, !.before = decodereader,
                            !.fed = @ \o Consumed(decodereader, d)]
    /\ UNCHANGED <<parser, init_encoding, xmlreader, event, pc, result>>

ReaderFillBuf ==
    /\ pc = "reader"
    /\ \E n \in FillReads(decodereader) : ReaderFilled(fill_buf(decodereader, n))

\* the consumer calls consume(amt), taking the bytes of the slice it holds
\* that amt covers; amt may be 0 or more than the slice
ReaderConsume ==
    /\ pc = "reader"
    /\ \E amt \in 0..(Len(buf) + MaxOverConsume) :
         /\ decodereader' = consume(decodereader, amt)
         /\ buf' = Drop(buf, amt)
         /\ hist' = [hist EXCEPT !.delivered = @ \o Take(buf, amt),
                                 !.op = "consume", !.amt = amt, !.before = decodereader]
    /\ UNCHANGED <<parser, init_encoding, xmlreader, event, pc, result>>

ReaderSetEncoding ==
    /\ pc = "reader"
    /\ Len(hist.set_encoding) < MaxSwitches
    /\ \E enc \in ReaderEncodings :
         /\ decodereader' = set_encoding(decodereader, enc)
         /\ hist' = [hist EXCEPT !.set_encoding = Append(@, enc), !.drained = FALSE,
                                 !.op = "set_encoding", !.amt = 0, !.before = decodereader]
    /\ buf' = <<>>
    /\ UNCHANGED <<parser, init_encoding, xmlreader, event, pc, result>>

NextReader ==
    \/ ReaderFillBuf
    \/ ReaderConsume
    \/ ReaderSetEncoding

SpecReader == InitReader /\ [][NextReader]_vars

----------------------------------------------------------------------------
(* SpecCarry: the reader over streams short and longer than REMAINING_SIZE, *)
(* its consumer taking a mark of 1 to 3 bytes first or the whole slice it   *)
(* holds, a decoder being set once.                                         *)

\* "<a>" and "<" followed by 33 "a": more than REMAINING_SIZE bytes stay
\* unconsumed when a mark has been taken from the first read
LongStream == [k \in 1..(REMAINING_SIZE + 2) |-> IF k = 1 THEN 60 ELSE 97]

CarryStreams == {<<254, 255, 0, 97>>, <<60, 195, 169, 97>>, LongStream}

InitCarry == \E src \in CarryStreams : InitAt(src, Options(TRUE, TRUE, "None"), "reader")

\* the consumer takes the whole slice or, as the first bytes it takes, a mark
\* of amt bytes, and calls consume
ReaderConsumeMark ==
    /\ pc = "reader"
    /\ buf # <<>>
    /\ \E amt \in (IF hist.delivered = <<>> THEN {1, 2, 3} ELSE {}) \cup {Len(buf)} :
         /\ amt <= Len(buf)
         /\ decodereader' = consume(decodereader, amt)
         /\ buf' = Drop(buf, amt)
         /\ hist' = [hist EXCEPT !.delivered = @ \o Take(buf, amt),
                                 !.op = "consume", !.amt = amt, !.before = decodereader]
    /\ UNCHANGED <<parser, init_encoding, xmlreader, event, pc, result>>

\* set_encoding(Some(enc)), called once
ReaderSetDecoder ==
    /\ pc = "reader"
    /\ hist.set_encoding = <<>>
    /\ \E enc \in ReaderEncodings \ {"None"} :
         /\ decodereader' = set_encoding(decodereader, enc)
         /\ hist' = [hist EXCEPT !.set_encoding = Append(@, enc), !.drained = FALSE,
                                 !.op = "set_encoding", !.amt = 0, !.before = decodereader]
    /\ buf' = <<>>
    /\ UNCHANGED <<parser, init_encoding, xmlreader, event, pc, result>>

NextCarry ==
    \/ ReaderFillBuf
    \/ ReaderConsumeMark
    \/ ReaderSetDecoder

SpecCarry == InitCarry /\ [][NextCarry]_vars

----------------------------------------------------------------------------
(* Properties of the DecodeReader (checked under SpecReader)               *)

IsRaw(x) == "i" \in DOMAIN x

\* the source positions a delivered byte stands for
ItemLo(x) == IF IsRaw(x) THEN x.i ELSE x.lo

ItemHi(x) == IF IsRaw(x) THEN x.i ELSE x.hi

\* x is the last byte delivered for its source bytes
EndsItem(x) == IsRaw(x) \/ x.k = x.m

\* y may be delivered right after x: the next byte of the same decoded
\* character, or the first byte for the source bytes that follow x's
Follows(x, y) ==
    IF ~IsRaw(y) /\ y.k > 1
    THEN ~IsRaw(x) /\ x.lo = y.lo /\ x.hi = y.hi /\ x.k + 1 = y.k
    ELSE EndsItem(x) /\ ItemLo(y) = ItemHi(x) + 1

\* C2: whatever the fill_buf, consume and set_encoding calls so far, the bytes
\* delivered to the consumer stand for the source bytes 1, 2, 3, ... in order,
\* none skipped and none twice (a passthrough byte for itself, decoded text for
\* the source bytes it was decoded from); and once the consumer has seen the end
\* of the stream, for all the source bytes.
C2_EveryByteOnceInOrder ==
    /\ hist.delivered # <<>> =>
          /\ ItemLo(hist.delivered[1]) = 1
          /\ IsRaw(hist.delivered[1]) \/ hist.delivered[1].k = 1
          /\ \A j \in 1..(Len(hist.delivered) - 1) :
                Follows(hist.delivered[j], hist.delivered[j + 1])
    /\ (hist.drained /\ hist.src # <<>>) =>
          /\ hist.delivered # <<>>
          /\ EndsItem(Last(hist.delivered))
          /\ ItemHi(Last(hist.delivered)) = Len(hist.src)

----------------------------------------------------------------------------
(* Properties of parse_start (checked under SpecStart)                     *)

FirstIsDecl == Len(hist.read) >= 1 /\ hist.read[1].kind = "Decl"

\* the stream starts 00 3C 00 3F and was sniffed as UTF-16 BE, no override given
Sniffed16BENoBom ==
    /\ StartsWith(hist.src, <<0, 60, 0, 63>>)
    /\ parser.read_opts.encoding = "None"
    /\ init_encoding = "UTF_16BE"

\* C3: a stream that starts 00 3C 00 3F, sniffed as UTF-16 BE, whose declaration
\* has no encoding attribute or declares UTF-16 or UTF-16BE, is decoded as
\* UTF-16 BE for the whole parse: set_encoding is called once, with UTF-16 BE,
\* and the decoder is the UTF-16 BE one in every later state.
C3_DecoderStays16BE ==
    (/\ Sniffed16BENoBom
     /\ FirstIsDecl
     /\ hist.read[1].encoding \in {"None", "utf-16", "utf-16be"})
    => /\ decodereader.decoder.enc = "UTF_16BE"
       /\ hist.set_encoding = <<"UTF_16BE">>

\* an encoding as the text encoding it stands for: no encoding means UTF-8
Canon(e) == IF e = "None" THEN "UTF_8" ELSE e

DeclaredEncoding == for_label(hist.read[1].encoding)

\* C4: when the first event is a declaration (handled without error) that names
\* an encoding, the reader is reconfigured (set_encoding called a second time
\* and the tokenizer rebuilt) if and only if the declared encoding differs from
\* the initial one, the case "declared UTF-16 LE, initial UTF-16 BE" excepted.
C4_SwitchIffDeclaredDiffers ==
    (hist.decl = "ok" /\ hist.read[1].encoding # "None")
    => /\ (hist.rebuilt = 1) <=>
            (/\ Canon(DeclaredEncoding) # Canon(init_encoding)
             /\ ~(DeclaredEncoding = "UTF_16LE" /\ init_encoding = "UTF_16BE"))
       /\ Len(hist.set_encoding) = 1 + hist.rebuilt

\* C5: with the initial encoding UTF-16 BE and a declaration whose label resolves
\* to UTF-16 LE, parse_start never calls set_encoding again: the only call is the
\* initial one and the decoder is the UTF-16 BE one in every state of the parse.
C5_Generic16KeepsBE ==
    (/\ init_encoding = "UTF_16BE"
     /\ FirstIsDecl
     /\ DeclaredEncoding = "UTF_16LE")
    => /\ hist.set_encoding = <<"UTF_16BE">>
       /\ hist.rebuilt = 0
       /\ decodereader.decoder.enc = "UTF_16BE"

\* a parse of a stream with the FE FF mark, declared "utf-16", that ran to its end
C5_Witness ==
    /\ StartsWith(hist.src, <<254, 255>>)
    /\ hist.sniffed = "UTF_16BE"
    /\ init_encoding = "UTF_16BE"
    /\ FirstIsDecl
    /\ hist.read[1].encoding = "utf-16"
    /\ hist.decl = "ok"
    /\ pc = "done"
    /\ result.ok

\* the sniffer's rules, read off the leading bytes of the stream
RuleOf(src) ==
    CASE StartsWith(src, <<60, 63>>) -> [encoding |-> "None", consumed |-> 0]
      [] StartsWith(src, <<254, 255>>) -> [encoding |-> "UTF_16BE", consumed |-> 2]
      [] StartsWith(src, <<255, 254>>) -> [encoding |-> "UTF_16LE", consumed |-> 2]
      [] StartsWith(src, <<239, 187, 191>>) -> [encoding |-> "None", consumed |-> 3]
      [] StartsWith(src, <<0, 60, 0, 63>>) -> [encoding |-> "UTF_16BE", consumed |-> 0]
      [] StartsWith(src, <<60, 0, 63, 0>>) -> [encoding |-> "UTF_16LE", consumed |-> 0]
      [] OTHER -> [encoding |-> "None", consumed |-> 0]

\* C6: for every leading byte sequence of the stream the sniffer returns the
\* encoding of the first rule that matches and consumes exactly the matched
\* byte-order mark; a (known) override replaces the sniffed encoding as the
\* initial one, the mark staying consumed.
C6_SnifferRules ==
    pc # "parse_start"
    => /\ hist.sniffed = RuleOf(hist.src).encoding
       /\ hist.bom = RuleOf(hist.src).consumed
       /\ (result # CannotDecode =>
              init_encoding = IF parser.read_opts.encoding = "None"
                              THEN hist.sniffed
                              ELSE for_label(parser.read_opts.encoding))

----------------------------------------------------------------------------
(* Properties of the document builder (checked under Spec)                 *)

Root == parser.document.elements[container]

Children(e) == parser.document.elements[e].children

\* C7: the first event not being a declaration: with require_decl the parse
\* fails with the missing-declaration error, nothing handled and no document
\* returned; without it the events are handled in the order read, each once,
\* the first one first (a first Text, Start, ... leaves exactly its one node
\* under the root and the parse goes on to read), and a first end-of-stream
\* event ends the parse successfully at once.
C7_FirstEventNotDecl ==
    (Len(hist.read) >= 1 /\ hist.read[1].kind # "Decl" /\ pc # "first")
    => IF parser.read_opts.require_decl
       THEN /\ pc = "done"
            /\ result = MissingDecl
            /\ hist.handled = <<>>
            /\ Root.children = <<>>
       ELSE /\ hist.handled # <<>>
            /\ \A k \in 1..Len(hist.handled) : hist.handled[k] = k
            /\ Len(hist.handled) \in {Len(hist.read), Len(hist.read) - 1}
            /\ (hist.read[1].kind = "Eof"
                  => pc = "done" /\ result = Ok(parser.document) /\ Len(hist.read) = 1)
            /\ (hist.read[1].kind # "Eof" /\ hist.read[1].ok /\ Len(hist.read) = 1
                  => /\ pc = "read" \/ (pc = "done" /\ result = TokenizerError)
                     /\ Len(Root.children) = 1
                     /\ Root.children[1].kind =
                          IF hist.read[1].kind \in {"Start", "Empty"}
                          THEN "Element" ELSE hist.read[1].kind)
            /\ (~hist.read[1].ok => pc = "done" /\ result = Utf8Error /\ Len(hist.read) = 1)

\* a parse without a declaration that handled a first Text event and two more events
C7_Witness ==
    /\ ~parser.read_opts.require_decl
    /\ Len(hist.read) = 3
    /\ hist.read[1].kind = "Text"
    /\ hist.read[2].kind = "Empty"
    /\ pc = "done"
    /\ result.ok
    /\ Len(result.val.elements[container].children) = 2

\* C8: a declaration event read at any position after the first is the last
\* event read: once handled, the parse has failed with the MalformedXML error
\* for a declaration in the middle of the document (no document returned).
C8_SecondDeclFails ==
    \A k \in 2..Len(hist.read) :
        hist.read[k].kind = "Decl"
        => /\ k = Len(hist.read)
           /\ \/ pc = "handle" /\ Len(hist.handled) < k
              \/ pc = "done" /\ result = DeclInMiddle /\ Last(hist.handled) = k

\* a declaration read third, after a first declaration, and handled
C8_Witness ==
    /\ Len(hist.read) = 3
    /\ hist.read[1].kind = "Decl"
    /\ hist.read[3].kind = "Decl"
    /\ pc = "done"
    /\ result = DeclInMiddle

\* C9: after a successful parse, with empty_text_node an element closed by an End
\* event has at least one child, and exactly the one child Text("") when it had
\* none at its End event; without empty_text_node such an element has no child;
\* an element made by an Empty event has no child under either setting.
C9_EmptyTextNode ==
    (pc = "done" /\ result.ok)
    => /\ \A c \in hist.closed :
            IF parser.read_opts.empty_text_node
            THEN /\ Children(c.id) # <<>>
                 /\ c.had = 0 => Children(c.id) = <<ContentNode("Text", <<>>)>>
            ELSE c.had = 0 => Children(c.id) = <<>>
       /\ \A m \in hist.made : m.by = "Empty" => Children(m.id) = <<>>

\* a successful parse that closed an element without children and made a self-closed one
C9_Witness ==
    /\ pc = "done"
    /\ result.ok
    /\ parser.read_opts.empty_text_node
    /\ \E c \in hist.closed : c.had = 0
    /\ \E m \in hist.made : m.by = "Empty"

----------------------------------------------------------------------------
(* Properties of create_element (checked under SpecAttrs)                  *)

IsNamespaceKey(key) == key = xmlns \/ IsPrefix(xmlns_colon, key)

\* the prefix a namespace attribute declares: "" for xmlns, <p> for xmlns:<p>
PrefixOfKey(key) == IF key = xmlns THEN <<>> ELSE SubSeq(key, Len(xmlns_colon) + 1, Len(key))

\* the value of the last attribute of attrs that is of the given sort and has
\* the name k under naming
LastValue(attrs, namespace, k) ==
    LET at == {i \in 1..Len(attrs) :
                  /\ IsNamespaceKey(attrs[i].key) = namespace
                  /\ k = IF namespace THEN PrefixOfKey(attrs[i].key) ELSE attrs[i].key}
    IN attrs[CHOOSE i \in at : \A j \in at : j <= i].value

RoutedFrom(attrs, e) ==
    /\ DOMAIN e.attributes = {attrs[i].key : i \in {j \in 1..Len(attrs) : ~IsNamespaceKey(attrs[j].key)}}
    /\ DOMAIN e.namespace_decls =
          {PrefixOfKey(attrs[i].key) : i \in {j \in 1..Len(attrs) : IsNamespaceKey(attrs[j].key)}}
    /\ \A k \in DOMAIN e.attributes : e.attributes[k] = LastValue(attrs, FALSE, k)
    /\ \A k \in DOMAIN e.namespace_decls : e.namespace_decls[k] = LastValue(attrs, TRUE, k)

\* C10: for every element made from a Start or Empty event: no key of its
\* attribute map is xmlns or starts with xmlns:, and, the attribute list having
\* gone through, its namespace map holds exactly the prefixes of the xmlns and
\* xmlns:<p> attributes ("" for xmlns) and its attribute map exactly the other
\* keys, each with the value of the last attribute of that name.
C10_NamespaceRouting ==
    \A m \in hist.made :
        /\ \A k \in DOMAIN parser.document.elements[m.id].attributes : ~IsNamespaceKey(k)
        /\ (\A i \in 1..Len(hist.read[m.at].attrs) : hist.read[m.at].attrs[i].ok)
              => RoutedFrom(hist.read[m.at].attrs, parser.document.elements[m.id])

\* an element made from xmlns, xmlns:p and a repeated q, in a parse that succeeded
C10_Witness ==
    /\ pc = "done"
    /\ result.ok
    /\ \E m \in hist.made :
          /\ Len(hist.read[m.at].attrs) = 3
          /\ hist.read[m.at].attrs[1].key = <<113>>
          /\ hist.read[m.at].attrs[2].key = xmlns_colon \o <<112>>
          /\ hist.read[m.at].attrs[3] = Attr(<<113>>, <<119>>, TRUE)
          /\ hist.read[m.at].attrs[1].value = <<118>>
          /\ result.val.elements[m.id].attributes[<<113>>] = <<119>>
          /\ result.val.elements[m.id].namespace_decls[<<112>>] = hist.read[m.at].attrs[2].value

----------------------------------------------------------------------------
(* SpecNorm: normalize_space on every byte sequence of the bound, applied  *)
(* once and then again to its own result.                                  *)

\* longest byte sequence given to normalize_space
MaxNormLen == 4

\* \r, \n, \t, space, "a" and "b"
NormBytes == {13, 10, 9, 32, 97, 98}

InitNorm ==
    \E x \in SeqsUpTo(NormBytes, MaxNormLen) :
        InitAt(x, Options(TRUE, TRUE, "None"), "normalize")

\* normalize_space(x) is called and returns
Normalize ==
    /\ pc = "normalize"
    /\ result' = Ok(normalize_space(hist.src))
    /\ pc' = "normalized"
    /\ UNCHANGED <<decodereader, parser, init_encoding, xmlreader, event, buf, hist>>

\* normalize_space is called on what it returned
NormalizeAgain ==
    /\ pc = "normalized"
    /\ result' = Ok(normalize_space(result.val))
    /\ hist' = [hist EXCEPT !.reference = result]
    /\ pc' = "renormalized"
    /\ UNCHANGED <<decodereader, parser, init_encoding, xmlreader, event, buf>>

NextNorm ==
    \/ Normalize
    \/ NormalizeAgain

SpecNorm == InitNorm /\ [][NextNorm]_vars

----------------------------------------------------------------------------
(* Properties of normalize_space (checked under SpecNorm)                  *)

\* C11: normalize_space applied to its own result returns that result
\* unchanged, for every byte sequence.
C11_NormalizeIdempotent ==
    pc = "renormalized" => result = hist.reference

\* a sequence with leading, inner and trailing whitespace, normalized twice
C11_Witness ==
    /\ pc = "renormalized"
    /\ hist.src = <<9, 97, 32, 32>>
    /\ hist.reference.val = <<97>>
    /\ result.val = <<97>>

Whitespace == {13, 10, 9, 32}

\* the positions of the non-whitespace bytes of s, in order
NonSpaceAt(s, i) ==
    CHOOSE k \in 1..Len(s) :
        /\ s[k] \notin Whitespace
        /\ Cardinality({j \in 1..k : s[j] \notin Whitespace}) = i

NonSpaceCount(s) == Cardinality({j \in 1..Len(s) : s[j] \notin Whitespace})

\* y is x with its whitespace normalized
IsNormalizedFrom(x, y) ==
    /\ \A k \in 1..Len(y) : y[k] \notin {13, 10, 9}
    /\ y # <<>> => y[1] # 32 /\ y[Len(y)] # 32
    /\ \A k \in 1..(Len(y) - 1) : ~(y[k] = 32 /\ y[k + 1] = 32)
    /\ NonSpaceCount(y) = NonSpaceCount(x)
    /\ \A i \in 1..NonSpaceCount(x) : y[NonSpaceAt(y, i)] = x[NonSpaceAt(x, i)]
    /\ \A i \in 1..(NonSpaceCount(x) - 1) :
          NonSpaceAt(y, i + 1) - NonSpaceAt(y, i) =
              IF NonSpaceAt(x, i + 1) - NonSpaceAt(x, i) > 1 THEN 2 ELSE 1
    /\ NonSpaceCount(x) = 0 => y = <<>>

\* C12: the result of normalize_space holds no \r, \n or \t, neither starts
\* nor ends with a space, has no two adjacent spaces, holds the non-whitespace
\* bytes of its argument in their order, one space between two of them exactly
\* when whitespace separated them; an all-whitespace argument gives <<>>.
C12_NormalizedForm ==
    pc = "normalized" => IsNormalizedFrom(hist.src, result.val)

\* "a", \r, \n, "b" normalized to "a b"
C12_Witness ==
    /\ pc = "normalized"
    /\ hist.src = <<97, 13, 10, 98>>
    /\ result.val = <<97, 32, 98>>

----------------------------------------------------------------------------
(* Properties of the element stack and the tree (checked under Spec)       *)

\* C13: a parse that returns the document (handle_event answered Ok(true) to
\* Eof) leaves the element stack at depth 1, holding only the container.
C13_EofAtDepthOne ==
    (pc = "done" /\ result.ok) => Len(parser.element_stack) = 1

\* the parse has not failed
NotFailed == pc = "done" => result.ok

\* the events handle_event was given so far that are of kind k
HandledOf(k) == {j \in 1..Len(hist.handled) : hist.read[hist.handled[j]].kind = k}

\* the elements Start events made that no End event has popped
OpenStarts ==
    {m.id : m \in {x \in hist.made : x.by = "Start"}} \ {c.id : c \in hist.closed}

\* C17: the events being such that each End follows a still-unmatched Start,
\* in every state handle_event has reached without failing the stack is the
\* container followed by the elements of the unmatched Start events, oldest
\* first: its depth is 1 plus the number of Start events not yet matched by an
\* End, and Empty, Text, Comment, CData, PI and DocType events do not change it.
C17_StackIsOpenStarts ==
    NotFailed =>
        /\ parser.element_stack # <<>>
        /\ parser.element_stack[1] = container
        /\ Len(parser.element_stack)
               = 1 + Cardinality(HandledOf("Start")) - Cardinality(HandledOf("End"))
        /\ {parser.element_stack[k] : k \in 2..Len(parser.element_stack)} = OpenStarts
        /\ \A k \in 1..(Len(parser.element_stack) - 1) :
              parser.element_stack[k] < parser.element_stack[k + 1]

\* Start, Start and End have been handled: one element is open, the other
\* was popped
C17_Witness ==
    /\ pc = "read"
    /\ Cardinality(HandledOf("Start")) = 2
    /\ Cardinality(HandledOf("End")) = 1
    /\ Len(hist.handled) = 3
    /\ parser.element_stack = <<container, 2>>

\* the places (parent, index) at which element e is a child
ParentsOf(doc, e) ==
    UNION {{<<q, k>> : k \in {j \in 1..Len(doc.elements[q].children) :
                                 doc.elements[q].children[j] = ElementNode(e)}} :
           q \in 1..Len(doc.elements)}

\* every element but the container is a child at exactly one place, and every
\* element on the stack is a child of the one below it
Attached ==
    /\ NotFailed =>
          \A e \in 2..Len(parser.document.elements) :
              Cardinality(ParentsOf(parser.document, e)) = 1
    /\ \A k \in 2..Len(parser.element_stack) :
          \E j \in 1..Len(Children(parser.element_stack[k - 1])) :
              Children(parser.element_stack[k - 1])[j] = ElementNode(parser.element_stack[k])

\* handle_event handles the event in this step and does not fail
HandlesCreating ==
    /\ hist'.handled # hist.handled
    /\ event.kind \in {"Start", "Empty", "Text", "Comment", "CData", "PI", "DocType"}
    /\ ~(pc' = "done" /\ ~result'.ok)

\* the node the step made is the last child of the element that was on top of
\* the stack, no other child list changed, and only a Start pushes, the new
\* element
AppendsToTop ==
    LET top == Last(parser.element_stack)
        old == parser.document.elements
        new == parser'.document.elements
        node == Last(new[top].children)
    IN /\ Len(new[top].children) = Len(old[top].children) + 1
       /\ SubSeq(new[top].children, 1, Len(old[top].children)) = old[top].children
       /\ \A e \in 1..Len(old) : e # top => new[e].children = old[e].children
       /\ IF event.kind \in {"Start", "Empty"}
          THEN /\ Len(new) = Len(old) + 1
               /\ node = ElementNode(Len(new))
               /\ new[Len(new)].full_name = event.name
               /\ new[Len(new)].children = <<>>
          ELSE /\ Len(new) = Len(old)
               /\ node.kind = event.kind
               /\ node.content = event.content
       /\ parser'.element_stack =
              IF event.kind = "Start"
              THEN Append(parser.element_stack, Len(new))
              ELSE parser.element_stack

\* C19: each node made by a Start, Empty, Text, Comment, CData, PI or DocType
\* event is appended as the last child of the element on top of the stack when
\* the event is handled, so children are in event order and each element is a
\* child of exactly one parent; the element of a Start is on the stack only as
\* a child of the element below it.
C19_AppendedToTop ==
    /\ []Attached
    /\ [][HandlesCreating => AppendsToTop]_vars

\* element 2 holds a Text and then element 3, both open
C19_Witness ==
    /\ parser.element_stack = <<container, 2, 3>>
    /\ Len(Children(2)) = 2
    /\ Children(2)[1].kind = "Text"
    /\ Children(2)[2] = ElementNode(3)
    /\ Children(container) = <<ElementNode(2)>>

----------------------------------------------------------------------------
(* Properties of the calls on the DecodeReader (checked under SpecReader)  *)

\* the decoded text of reader d not yet consumed
DecodedRest(d) == SubSeq(d.decoded, d.decoded_pos + 1, d.decoded_cap)

\* the raw bytes of reader d not yet consumed
UndecodedRest(d) == SubSeq(d.undecoded, d.undecoded_pos + 1, d.undecoded_cap)

\* C14: a fill_buf call made while decoded text is unconsumed (decoded_pos <
\* decoded_cap) returns exactly that text and reads nothing from the source,
\* in every reachable state, those right after set_encoding included.
C14_FillBufServesDecodedRest ==
    (hist.op = "fill_buf" /\ hist.before.decoded_pos < hist.before.decoded_cap)
    => /\ buf = DecodedRest(hist.before)
       /\ decodereader.inner = hist.before.inner

\* a decoder was set once, by the only set_encoding call so far
OneDecoder == Len(hist.set_encoding) = 1 /\ hist.set_encoding[1] # "None"

\* the bytes the consumer took before the decoder was set (the mark)
RawDelivered == Cardinality({j \in 1..Len(hist.delivered) : IsRaw(hist.delivered[j])})

\* C15: with a decoder set and no further switch, for every chunking of the
\* source into reads, the bytes the decoder reported consumed over the fill_buf
\* calls, followed by the raw bytes not yet consumed and the bytes not yet read,
\* are the source after the bytes consumed before the decoder was set: the
\* carry-over loses, duplicates and reorders nothing, and what the decoder did
\* not consume is offered first on the next call.
C15_DecoderFedTheSource ==
    OneDecoder =>
        hist.fed \o UndecodedRest(decodereader) \o decodereader.inner
            = Drop(Tagged(hist.src), RawDelivered)

\* the mark FE FF was read with "a" behind it and consumed, the decoder set,
\* and the carried-over 00 and the 61 read after it have been decoded
C15_Witness ==
    /\ OneDecoder
    /\ hist.src = <<254, 255, 0, 97>>
    /\ RawDelivered = 2
    /\ hist.before.undecoded_cap - hist.before.undecoded_pos = 1
    /\ hist.op = "fill_buf"
    /\ Vals(hist.fed) = <<0, 97>>

\* more than REMAINING_SIZE raw bytes were unconsumed when the decoder was
\* set, and fill_buf decoded them in place, without a read
C15_WitnessInPlace ==
    /\ OneDecoder
    /\ hist.op = "fill_buf"
    /\ hist.before.undecoded_cap - hist.before.undecoded_pos > REMAINING_SIZE
    /\ hist.before.undecoded_pos > 0
    /\ Len(hist.fed) > REMAINING_SIZE

\* C16: in every state reached by fill_buf, consume (any amount) and
\* set_encoding calls, 0 <= undecoded_pos <= undecoded_cap <= UNDECODED_SIZE
\* and 0 <= decoded_pos <= decoded_cap <= DECODED_SIZE; consume(amt) advances
\* the cursor of the active mode by min(amt, fill level - cursor) and changes
\* nothing else of the reader.
C16_CursorsWithinFill ==
    /\ 0 <= decodereader.undecoded_pos
    /\ decodereader.undecoded_pos <= decodereader.undecoded_cap
    /\ decodereader.undecoded_cap <= UNDECODED_SIZE
    /\ 0 <= decodereader.decoded_pos
    /\ decodereader.decoded_pos <= decodereader.decoded_cap
    /\ decodereader.decoded_cap <= DECODED_SIZE
    /\ hist.op = "consume" =>
          IF hist.before.decoder.enc # "None"
          THEN decodereader =
                   [hist.before EXCEPT !.decoded_pos =
                        @ + Min(hist.amt, hist.before.decoded_cap - hist.before.decoded_pos)]
          ELSE decodereader =
                   [hist.before EXCEPT !.undecoded_pos =
                        @ + Min(hist.amt, hist.before.undecoded_cap - hist.before.undecoded_pos)]

\* consume was called with more than the bytes left, in decoded mode, and
\* stopped at the fill level
C16_Witness ==
    /\ hist.op = "consume"
    /\ hist.before.decoder.enc # "None"
    /\ hist.before.decoded_cap - hist.before.decoded_pos = 1
    /\ hist.amt = 2
    /\ decodereader.decoded_pos = decodereader.decoded_cap
    /\ decodereader.undecoded_cap > 0

\* C18: set_encoding changes only the decoder and clears the exhausted flag:
\* the raw region, the decoded region, their cursors and fill levels (and the
\* source) are as before the call, in every state in which it is called.
C18_SetEncodingFrame ==
    hist.op = "set_encoding" =>
        /\ decodereader = [hist.before EXCEPT !.decoder = decodereader.decoder,
                                              !.done = FALSE]
        /\ decodereader.decoder.enc = Last(hist.set_encoding)
        /\ decodereader.decoder.pending = <<>>

\* set_encoding was called with decoded text unconsumed, raw bytes consumed
\* and the exhausted flag set
C18_Witness ==
    /\ hist.op = "set_encoding"
    /\ hist.before.decoded_pos < hist.before.decoded_cap
    /\ hist.before.undecoded_pos > 0
    /\ hist.before.done
    /\ ~decodereader.done
    /\ decodereader.decoder # hist.before.decoder

\* C20: with a decoder set, fill_buf returns the empty slice only when the
\* source has reported its end and the decoder has consumed every byte read.
C20_EmptyOnlyAtEnd ==
    (hist.op = "fill_buf" /\ decodereader.decoder.enc # "None" /\ buf = <<>>)
    => /\ decodereader.done
       /\ decodereader.inner = <<>>
       /\ UndecodedRest(decodereader) = <<>>

====
